---------------------------- MODULE Spec2Model ----------------------------
(***************************************************************************)
(* A model of cmsis_dsp_lib.c: the "struct + function" wrappers around the *)
(* ARM CMSIS-DSP kernels (real FFT, complex magnitude, window function,    *)
(* FIR filter).                                                            *)
(*                                                                         *)
(* Memory is a map from buffer names to sequences of samples; a pointer is *)
(* a buffer name and an element offset, so that memcpy, aliasing and       *)
(* pointer arithmetic of the callers are explicit.  float32_t samples are  *)
(* integers: the FIR and FFT parts use integer-valued samples (exact in    *)
(* float32 at these magnitudes), the window part uses hundredths so that   *)
(* the fractional window coefficients are representable.                   *)
(***************************************************************************)
EXTENDS Integers, Sequences, FiniteSets, TLC

VARIABLES
    mem,      \* buffer name -> sequence of samples (all caller-owned memory)
    fir,      \* FIR block id -> fir_f32_TypeDef
    rfft,     \* the rfft_f32_TypeDef block
    win,      \* the window_TypeDef block
    ret,      \* what the last call returned: [has, val]; has = FALSE for void
    last,     \* the last call: its name, arguments and the memory before it
    halted,   \* TRUE once an undefined access has trapped
    cnt,      \* per-block call counters
    fed,      \* FIR block id -> samples consumed by apply since blockInit
    got,      \* FIR block id -> samples produced by apply since blockInit
    fwdLog    \* the forward transforms since blockInit: [in, out, at] in call order

vars == <<mem, fir, rfft, win, ret, last, halted, cnt, fed, got, fwdLog>>

-----------------------------------------------------------------------------
(* Bounds of the model *)

MaxTaps == 3
MaxBlock == 4
MaxApplies == 2

-----------------------------------------------------------------------------
(* arm_status codes, as listed in the file header *)

ARM_MATH_SUCCESS == 0
ARM_MATH_ARGUMENT_ERROR == -1
ARM_MATH_LENGTH_ERROR == -2

Void == [has |-> FALSE, val |-> 0]
Status(v) == [has |-> TRUE, val |-> v]

-----------------------------------------------------------------------------
(* Memory, pointers, memcpy *)

NULL == [buf |-> "NULL", off |-> 0]
P(b, o) == [buf |-> b, off |-> o]

\* the n samples at p
Rd(m, p, n) == [i \in 1..n |-> m[p.buf][p.off + i]]

\* m with the samples s stored at p (the part that lies inside the buffer)
Wr(m, p, s) ==
    [m EXCEPT ![p.buf] =
        [i \in 1..Len(@) |->
            IF i > p.off /\ i <= p.off + Len(s) THEN s[i - p.off] ELSE @[i]]]

\* n samples fit in the buffer behind p
Fits(m, p, n) == p # NULL /\ p.off + n <= Len(m[p.buf])

memcpy(m, dst, src, n) == Wr(m, dst, Rd(m, src, n))

RECURSIVE SumTo(_, _)
SumTo(f, n) == IF n = 0 THEN 0 ELSE f[n] + SumTo(f, n - 1)

NoCall ==
    [op |-> "none", blk |-> "none", pIn |-> NULL, pOut |-> NULL,
     n1 |-> 0, n2 |-> 0, kind |-> "none", ptrs |-> <<NULL, NULL, NULL>>,
     before |-> <<>>, kp |-> NULL, kx |-> <<>>]


-----------------------------------------------------------------------------
(* DSP block : FIR filter *)

FirIds == {"f1", "f2"}
StBuf(b) == IF b = "f1" THEN "st1" ELSE "st2"
TpBuf(b) == IF b = "f1" THEN "tp1" ELSE "tp2"

StateLen == MaxTaps + MaxBlock - 1

\* a block nobody has initialised yet
FirUninit ==
    [numTap |-> 0, blockSize |-> 0, pCoeff |-> NULL, pState |-> NULL,
     tmpBuffer |-> NULL,
     arm_struct |-> [numTaps |-> 0, pCoeffs |-> NULL, pState |-> NULL]]

\* arm_fir_init_f32: stores numTaps and pCoeffs, clears numTaps + blockSize - 1
\* state samples, stores pState.  The count is unsigned 32-bit, so 0 + 0 - 1
\* wraps to 2^32 - 1; the model's integers end at 2^31 - 1, which is as far
\* beyond every buffer.  Clearing through a null pointer or past the end of
\* the buffer is undefined: the call either traps, or goes on after the part
\* of the write that lies inside the buffer.
arm_fir_init_f32(m, S, numTaps, pCoeffs, pState, blockSize) ==
    LET n    == IF numTaps + blockSize >= 1
                THEN numTaps + blockSize - 1
                ELSE 2147483647
        S1   == [S EXCEPT !.numTaps = numTaps, !.pCoeffs = pCoeffs]
        zero == [i \in 1..n |-> 0]
    IN  IF n = 0 \/ Fits(m, pState, n)
        THEN {[mem   |-> IF n = 0 THEN m ELSE Wr(m, pState, zero),
               S     |-> [S1 EXCEPT !.pState = pState],
               fault |-> FALSE]}
        ELSE LET part == IF pState = NULL
                         THEN m
                         ELSE Wr(m, pState,
                                 [i \in 1..(Len(m[pState.buf]) - pState.off) |-> 0])
             IN  {[mem |-> part, S |-> S1, fault |-> TRUE],
                  [mem |-> part, S |-> [S1 EXCEPT !.pState = pState],
                   fault |-> FALSE]}

\* arm_fir_f32: y[n] = b[0]*x[n] + b[1]*x[n-1] + ... + b[numTaps-1]*x[n-numTaps+1]
\* with pCoeffs = {b[numTaps-1], ..., b[1], b[0]} (time reversed) and pState
\* holding the numTaps-1 samples before the block, oldest first, followed by
\* the block itself.  So y[n] is the dot product of pCoeffs with the numTaps
\* state samples starting at n.
arm_fir_f32(m, S, pSrc, pDst, blockSize) ==
    LET T  == S.numTaps
        c  == Rd(m, S.pCoeffs, T)
        x  == Rd(m, pSrc, blockSize)
        st == Rd(m, S.pState, T - 1) \o x
        y  == [n \in 1..blockSize |->
                  SumTo([i \in 1..T |-> c[i] * st[n + i - 1]], T)]
        ns == SubSeq(st, blockSize + 1, blockSize + T - 1) \o x
    IN  Wr(Wr(m, S.pState, ns), pDst, y)

\* (mutant of FirBind: the two sizes stored in each other's field)
FirBind_SizesSwapped(f, set_pCoeff, set_pState, set_tmp, setNumTap, setBlockSize) ==
    [f EXCEPT !.numTap = setBlockSize, !.blockSize = setNumTap,
              !.pCoeff = set_pCoeff, !.pState = set_pState,
              !.tmpBuffer = set_tmp]

\* the five assignments that open CMSIS_DSP_FIR_f32_blockInit
FirBind(f, set_pCoeff, set_pState, set_tmp, setNumTap, setBlockSize) ==
    [f EXCEPT !.numTap = setNumTap, !.blockSize = setBlockSize,
              !.pCoeff = set_pCoeff, !.pState = set_pState,
              !.tmpBuffer = set_tmp]

\* CMSIS_DSP_FIR_f32_blockInit: the possible outcomes [mem, f, fault, ret];
\* the function is void
CMSIS_DSP_FIR_f32_blockInit(m, f, set_pCoeff, set_pState, set_tmp, setNumTap, setBlockSize) ==
    LET f1 == FirBind(f, set_pCoeff, set_pState, set_tmp, setNumTap,
                      setBlockSize)
    IN  {[mem |-> o.mem, f |-> [f1 EXCEPT !.arm_struct = o.S],
          fault |-> o.fault, ret |-> Void] :
            o \in arm_fir_init_f32(m, f.arm_struct, setNumTap, set_pCoeff,
                                   set_pState, setBlockSize)}

\* (mutant of FirCopyIn: the copy reads the output buffer)
FirCopyIn_FromOutput(m, f, pInput, pOutput) ==
    memcpy(m, f.tmpBuffer, pOutput, f.blockSize)

\* (mutant of FirCopyIn: the copy is one sample short)
FirCopyIn_Short(m, f, pInput, pOutput) ==
    memcpy(m, f.tmpBuffer, pInput, f.blockSize - 1)

\* the memcpy that opens CMSIS_DSP_FIR_f32_apply
FirCopyIn(m, f, pInput, pOutput) ==
    memcpy(m, f.tmpBuffer, pInput, f.blockSize)

\* (mutant of CMSIS_DSP_FIR_f32_apply: the state buffer is cleared on
\* every call, as blockInit does)
CMSIS_DSP_FIR_f32_apply_ClearsState(m, f, pInput, pOutput) ==
    LET m1 == FirCopyIn(m, f, pInput, pOutput)
        m2 == Wr(m1, f.pState, [i \in 1..(f.numTap + f.blockSize - 1) |-> 0])
    IN  arm_fir_f32(m2, f.arm_struct, f.tmpBuffer, pOutput, f.blockSize)

\* CMSIS_DSP_FIR_f32_apply: the memory after the call
CMSIS_DSP_FIR_f32_apply(m, f, pInput, pOutput) ==
    LET m1 == FirCopyIn(m, f, pInput, pOutput)
    IN  arm_fir_f32(m1, f.arm_struct, f.tmpBuffer, pOutput, f.blockSize)

\* what the caller owes before apply: a block initialised with sizes >= 1 and
\* with buffers of the documented lengths
FirUsable(m, f) ==
    /\ f.numTap >= 1 /\ f.blockSize >= 1
    /\ f.arm_struct = [numTaps |-> f.numTap, pCoeffs |-> f.pCoeff,
                       pState |-> f.pState]
    /\ Fits(m, f.pCoeff, f.numTap)
    /\ Fits(m, f.pState, f.numTap + f.blockSize - 1)
    /\ Fits(m, f.tmpBuffer, f.blockSize)

\* the input streams tried: a ramp, a falling ramp, an alternation, an impulse
FirInputs ==
    {[i \in 1..MaxBlock |-> i],
     [i \in 1..MaxBlock |-> MaxBlock + 1 - i],
     [i \in 1..MaxBlock |-> IF i % 2 = 1 THEN 1 ELSE 3],
     [i \in 1..MaxBlock |-> IF i = 1 THEN 1 ELSE 0]}

\* the coefficient buffers tried: entries 0, 1 or 2 of total weight <= 2
\* (zero, every unit vector, every doubled unit vector, every pair of ones)
FirCoeffs ==
    {c \in [1..MaxTaps -> {0, 1, 2}] :
        SumTo(c, MaxTaps) <= 2}

FirInit ==
    /\ \E c \in FirCoeffs, x \in FirInputs :
          mem = [coef |-> c, x |-> x,
                 y   |-> [i \in 1..MaxBlock |-> 5],
                 st1 |-> [i \in 1..StateLen |-> 9],
                 st2 |-> [i \in 1..StateLen |-> 7],
                 tp1 |-> [i \in 1..MaxBlock |-> 8],
                 tp2 |-> [i \in 1..MaxBlock |-> 6]]
    /\ fir = [b \in FirIds |-> FirUninit]
    /\ rfft = <<>> /\ win = <<>> /\ fwdLog = <<>>
    /\ ret = Void /\ last = NoCall /\ halted = FALSE
    /\ cnt = [init |-> [b \in FirIds |-> 0], apply |-> [b \in FirIds |-> 0]]
    /\ fed = [b \in FirIds |-> <<>>]
    /\ got = [b \in FirIds |-> <<>>]

\* One blockInit call on block b, its arguments drawn from the tap counts Ts,
\* the block sizes Bs and, when nullable, null pointers.  A block is
\* initialised once (Uninitialized -> Ready).
FIR_blockInit(b, Ts, Bs, nullable) ==
    /\ ~halted
    /\ cnt.init[b] = 0
    /\ \E T \in Ts, B \in Bs,
          pc \in {P("coef", 0)} \cup (IF nullable THEN {NULL} ELSE {}),
          ps \in {P(StBuf(b), 0)} \cup (IF nullable THEN {NULL} ELSE {}),
          pt \in {P(TpBuf(b), 0)} \cup (IF nullable THEN {NULL} ELSE {}) :
         \E o \in CMSIS_DSP_FIR_f32_blockInit(mem, fir[b], pc, ps, pt, T, B) :
            /\ mem' = o.mem
            /\ fir' = [fir EXCEPT ![b] = o.f]
            /\ halted' = o.fault
            /\ ret' = o.ret
            /\ last' = [NoCall EXCEPT !.op = "FIR_blockInit", !.blk = b,
                                      !.n1 = T, !.n2 = B,
                                      !.ptrs = <<pc, ps, pt>>, !.before = mem]
    /\ cnt' = [cnt EXCEPT !.init[b] = @ + 1]
    /\ fed' = [fed EXCEPT ![b] = <<>>]
    /\ got' = [got EXCEPT ![b] = <<>>]
    /\ UNCHANGED <<rfft, win, fwdLog>>

\* where the caller's stream stands for block b: the next unread sample of x
NextIn(b) == P("x", Len(fed[b]))

\* One apply call on block b: the caller feeds x block by block, in order, and
\* takes the output in y at the same position or (inplace) over the input.
FIR_apply(b, Inplace) ==
    /\ ~halted
    /\ FirUsable(mem, fir[b])
    /\ cnt.apply[b] < MaxApplies
    /\ Fits(mem, NextIn(b), fir[b].blockSize)
    /\ \E inplace \in Inplace :
         LET pIn  == NextIn(b)
             pOut == IF inplace THEN pIn ELSE P("y", pIn.off)
             B    == fir[b].blockSize
         IN  /\ mem' = CMSIS_DSP_FIR_f32_apply(mem, fir[b], pIn, pOut)
             /\ last' = [NoCall EXCEPT !.op = "FIR_apply", !.blk = b,
                                       !.pIn = pIn, !.pOut = pOut,
                                       !.before = mem]
             /\ fed' = [fed EXCEPT ![b] = @ \o Rd(mem, pIn, B)]
             /\ got' = [got EXCEPT ![b] = @ \o Rd(mem', pOut, B)]
    /\ ret' = Void
    /\ cnt' = [cnt EXCEPT !.apply[b] = @ + 1]
    /\ UNCHANGED <<fir, rfft, win, halted, fwdLog>>

\* Two blocks over the same coefficients and the same input stream, driven
\* by a caller that keeps the preconditions of blockInit.
StreamNext ==
    \/ \E b \in FirIds : FIR_blockInit(b, 1..MaxTaps, 1..MaxBlock, FALSE)
    \/ \E b \in FirIds : FIR_apply(b, {FALSE})

SpecFIR == FirInit /\ [][StreamNext]_vars

\* One block, every argument combination of blockInit, apply in place or not.
FirNext ==
    \/ FIR_blockInit("f1", 0..MaxTaps, 0..MaxBlock, TRUE)
    \/ FIR_apply("f1", BOOLEAN)

SpecFIRBlock == FirInit /\ [][FirNext]_vars

-----------------------------------------------------------------------------
(* DSP block : Window functions *)

\* 1.0f in the window part, whose samples are hundredths
One == 100

WinBufLen == 6
MaxWinCalls == 3

WINDOW_TYPE_RECTANGULAR == "WINDOW_TYPE_RECTANGULAR"
WINDOW_TYPE_HANNING == "WINDOW_TYPE_HANNING"
WINDOW_TYPE_HAMMING == "WINDOW_TYPE_HAMMING"
\* the three macros and one more value of the uint8_t selector
WindowTypes ==
    {WINDOW_TYPE_RECTANGULAR, WINDOW_TYPE_HANNING, WINDOW_TYPE_HAMMING,
     "OTHER"}

\* the window lengths tried: those at which cos(2*pi*n/length) is rational
WinLengths == {0, 1, 2, 3, 4, 6}

\* cos(2*pi*n/length), in hundredths, for the lengths of WinLengths (the
\* loops are empty for length 0, where the quotient does not exist)
CosTurn(n, length) ==
    LET k == IF length = 0 THEN 0 ELSE ((12 * n) \div length) % 12
    IN  CASE k = 0 -> 100
          [] k \in {2, 10} -> 50
          [] k \in {3, 9} -> 0
          [] k \in {4, 8} -> -50
          [] k = 6 -> -100

\* (mutant of WindowIndices: the loops run while n <= length)
WindowIndices_OffByOne(length) == 0..length

\* the values n takes in for(n=0; n < length; n++)
WindowIndices(length) == 0..(length - 1)

\* (mutant of RectangularValue: the window is cleared)
RectangularValue_Zero(n) == 0

RectangularValue(n) == One
HanningValue(n, length) == (One - CosTurn(n, length)) \div 2
HammingValue(n, length) == 54 - (46 * CosTurn(n, length)) \div One

\* CMSIS_DSP_windowFunction_blockInit: [mem, w, ret]; the function is void
CMSIS_DSP_windowFunction_blockInit(m, w, set_valueBuf, setWindowType, setLength) ==
    LET w1 == [value |-> set_valueBuf, length |-> setLength,
               type |-> setWindowType]
        N  == WindowIndices(w1.length)
        Fill(v(_)) ==
            [m EXCEPT ![set_valueBuf.buf] =
                [i \in 1..Len(@) |->
                    IF (i - 1 - set_valueBuf.off) \in N
                    THEN v(i - 1 - set_valueBuf.off) ELSE @[i]]]
        Hann(n) == HanningValue(n, w1.length)
        Hamm(n) == HammingValue(n, w1.length)
    IN  [mem |-> IF w1.type = WINDOW_TYPE_RECTANGULAR THEN Fill(RectangularValue)
                 ELSE IF w1.type = WINDOW_TYPE_HANNING THEN Fill(Hann)
                 ELSE IF w1.type = WINDOW_TYPE_HAMMING THEN Fill(Hamm)
                 ELSE m,
         w   |-> w1,
         ret |-> Void]

\* arm_mult_f32: pDst[i] = pSrcA[i] * pSrcB[i], one sample after the other
arm_mult_f32(m, pSrcA, pSrcB, pDst, blockSize) ==
    LET a == Rd(m, pSrcA, blockSize)
        b == Rd(m, pSrcB, blockSize)
    IN  Wr(m, pDst, [i \in 1..blockSize |-> (a[i] * b[i]) \div One])

\* CMSIS_DSP_windowFunciton_apply
CMSIS_DSP_windowFunciton_apply(m, w, pInput, pOutput) ==
    arm_mult_f32(m, pInput, w.value, pOutput, w.length)

WinInputs ==
    {[i \in 1..WinBufLen |-> One * i],
     [i \in 1..WinBufLen |-> 7 - 50 * i],
     [i \in 1..WinBufLen |-> IF i = 1 THEN One ELSE 0]}

WinInit ==
    /\ \E u \in WinInputs :
          mem = [w |-> [i \in 1..WinBufLen |-> 37], u |-> u,
                 v |-> [i \in 1..WinBufLen |-> -1]]
    /\ win = [value |-> NULL, length |-> 0, type |-> "OTHER"]
    /\ fir = <<>> /\ rfft = <<>> /\ fwdLog = <<>>
    /\ fed = <<>> /\ got = <<>>
    /\ ret = Void /\ last = NoCall /\ halted = FALSE
    /\ cnt = [calls |-> 0, init |-> 0]

Win_blockInit ==
    /\ cnt.calls < MaxWinCalls
    /\ \E kind \in WindowTypes, L \in {l \in WinLengths : l <= WinBufLen} :
         LET o == CMSIS_DSP_windowFunction_blockInit(mem, win, P("w", 0), kind, L)
         IN  /\ mem' = o.mem
             /\ win' = o.w
             /\ ret' = o.ret
             /\ last' = [NoCall EXCEPT !.op = "Win_blockInit", !.n1 = L,
                                       !.kind = kind, !.before = mem]
    /\ cnt' = [calls |-> cnt.calls + 1, init |-> 1]
    /\ UNCHANGED <<fir, rfft, halted, fed, got, fwdLog>>

Win_apply ==
    /\ cnt.calls < MaxWinCalls
    /\ cnt.init = 1
    /\ \E pOut \in {P("u", 0), P("v", 0)} :
         /\ mem' = CMSIS_DSP_windowFunciton_apply(mem, win, P("u", 0), pOut)
         /\ last' = [NoCall EXCEPT !.op = "Win_apply", !.pIn = P("u", 0),
                                   !.pOut = pOut, !.before = mem]
    /\ ret' = Void
    /\ cnt' = [cnt EXCEPT !.calls = @ + 1]
    /\ UNCHANGED <<fir, rfft, win, halted, fed, got, fwdLog>>

WinNext == Win_blockInit \/ Win_apply

SpecWin == WinInit /\ [][WinNext]_vars

-----------------------------------------------------------------------------
(* DSP block : Fast Fourier Transform (FFT) *)

FFTBufLen == 34
MaxFFTCalls == 3

\* the ifftFlag values of the kernel
REAL_FFT_SELECT_VAL == 0
REAL_IFFT_SELECT_VAL == 1

\* "The functions support lengths of [32, 64, 128, ..., 4096] samples."
SupportedLengths == {32, 64, 128, 256, 512, 1024, 2048, 4096}

\* the setLength values tried
FFTLengths == {0, 16, 31, 32, 33, 64, 4096}

RfftUninit ==
    [length |-> 0, tmpBuffer_1 |-> NULL, tmpBuffer_2 |-> NULL,
     arm_struct |-> [fftLenRFFT |-> 0]]

\* arm_rfft_fast_init_f32, an external kernel: success for a supported length;
\* which error status an unsupported length gets is the kernel's business and
\* is left open between the two argument-related codes.
arm_rfft_fast_init_f32(S, fftLen) ==
    IF fftLen \in SupportedLengths
    THEN {[S |-> [S EXCEPT !.fftLenRFFT = fftLen], status |-> ARM_MATH_SUCCESS]}
    ELSE {[S |-> S, status |-> e] :
            e \in {ARM_MATH_ARGUMENT_ERROR, ARM_MATH_LENGTH_ERROR}}

\* The transform itself is an external kernel.  It is a function of the N
\* samples it is handed, of N and of the direction flag; the model fixes one
\* such function (a weighted sum modulo 11), not the Fourier transform.
KernelMix(x, N, k, ifftFlag) ==
    (SumTo([j \in 1..N |-> (((j * k) % 5) + 1) * x[j]], N) + ifftFlag * k + 1) % 11

\* what the kernel may leave in its input buffer, which it uses as work space
KernelWork(x, N) == [j \in 1..N |-> (x[N + 1 - j] + j) % 11]

\* arm_rfft_fast_f32(S, p, pOut, ifftFlag): the memories it may leave.  It
\* writes the N results at pOut and may overwrite the N samples at p.
arm_rfft_fast_f32(m, S, p, pOut, ifftFlag) ==
    LET N   == S.fftLenRFFT
        x   == Rd(m, p, N)
        out == [k \in 1..N |-> KernelMix(x, N, k, ifftFlag)]
    IN  {Wr(m, pOut, out), Wr(Wr(m, p, KernelWork(x, N)), pOut, out)}

Isqrt(v) == CHOOSE r \in 0..v : r * r <= v /\ (r + 1) * (r + 1) > v

\* arm_cmplx_mag_f32: pDst[k] = sqrt(real[k]^2 + imag[k]^2) over the
\* interleaved {real, imag} pairs at pSrc
arm_cmplx_mag_f32(m, pSrc, pDst, numSamples) ==
    LET z == Rd(m, pSrc, 2 * numSamples)
    IN  Wr(m, pDst, [k \in 1..numSamples |->
                        Isqrt(z[2*k - 1] * z[2*k - 1] + z[2*k] * z[2*k])])

\* arm_cmplx_mag_squared_f32: pDst[k] = real[k]^2 + imag[k]^2
arm_cmplx_mag_squared_f32(m, pSrc, pDst, numSamples) ==
    LET z == Rd(m, pSrc, 2 * numSamples)
    IN  Wr(m, pDst, [k \in 1..numSamples |->
                        z[2*k - 1] * z[2*k - 1] + z[2*k] * z[2*k]])

\* int8_t of an arm_status
Int8(v) == ((v + 128) % 256) - 128

\* CMSIS_DSP_real_FFT_f32_blockInit: the possible outcomes [r, ret]
CMSIS_DSP_real_FFT_f32_blockInit(r, set_tmp1, set_tmp2, setLength) ==
    LET r1 == [r EXCEPT !.length = setLength, !.tmpBuffer_1 = set_tmp1,
                        !.tmpBuffer_2 = set_tmp2]
    IN  {[r |-> [r1 EXCEPT !.arm_struct = o.S], ret |-> Status(Int8(o.status))] :
            o \in arm_rfft_fast_init_f32(r.arm_struct, setLength)}

\* (mutant of FftCopyIn: no copy, the kernel works on what the buffer held)
FftCopyIn_Missing(m, r, pIn) == m

\* (mutant of FftCopyIn: the copy is one sample short)
FftCopyIn_Short(m, r, pIn) == memcpy(m, r.tmpBuffer_1, pIn, r.length - 1)

\* the memcpy that opens each of the four apply functions
FftCopyIn(m, r, pIn) == memcpy(m, r.tmpBuffer_1, pIn, r.length)

\* (mutant of MagSpectrumBuf: the spectrum is written over the caller's input)
MagSpectrumBuf_Caller(r, rDataIn) == rDataIn

\* where the magnitude functions have the kernel put the spectrum
MagSpectrumBuf(r, rDataIn) == r.tmpBuffer_2

\* One call of the kernel on tmpBuffer_1 after the copy: the outcomes
\* [mem, kp, kx], kp the input pointer handed to the kernel and kx the N
\* samples behind it at that moment.
FftRun(m, r, pIn, pOut, ifftFlag) ==
    LET m1 == FftCopyIn(m, r, pIn)
    IN  {[mem |-> m2, kp |-> r.tmpBuffer_1,
          kx |-> Rd(m1, r.tmpBuffer_1, r.arm_struct.fftLenRFFT)] :
            m2 \in arm_rfft_fast_f32(m1, r.arm_struct, r.tmpBuffer_1, pOut,
                                     ifftFlag)}

CMSIS_DSP_real_FFT_f32_apply(m, r, rDataIn, fftOut) ==
    FftRun(m, r, rDataIn, fftOut, REAL_FFT_SELECT_VAL)

CMSIS_DSP_real_IFFT_f32_apply(m, r, fftIn, ifftOut) ==
    FftRun(m, r, fftIn, ifftOut, REAL_IFFT_SELECT_VAL)

CMSIS_DSP_magnitude_FFT_f32_apply(m, r, rDataIn, magFFTOut) ==
    {[o EXCEPT !.mem = arm_cmplx_mag_f32(o.mem, MagSpectrumBuf(r, rDataIn),
                                         magFFTOut, r.length \div 2)] :
        o \in FftRun(m, r, rDataIn, MagSpectrumBuf(r, rDataIn),
                     REAL_FFT_SELECT_VAL)}

CMSIS_DSP_magnitudeSquare_FFT_f32_apply(m, r, rDataIn, magSqFFTOut) ==
    {[o EXCEPT !.mem = arm_cmplx_mag_squared_f32(o.mem,
                            MagSpectrumBuf(r, rDataIn), magSqFFTOut,
                            r.length \div 2)] :
        o \in FftRun(m, r, rDataIn, MagSpectrumBuf(r, rDataIn),
                     REAL_FFT_SELECT_VAL)}

\* what the caller owes before an apply call: a block whose blockInit
\* succeeded, and buffers of at least N samples
FftUsable(m, r) ==
    /\ r.length \in SupportedLengths
    /\ r.arm_struct.fftLenRFFT = r.length
    /\ Fits(m, r.tmpBuffer_1, r.length)
    /\ Fits(m, r.tmpBuffer_2, r.length)

FFTInputs ==
    {[i \in 1..FFTBufLen |-> IF i = 1 THEN 1 ELSE 0],
     [i \in 1..FFTBufLen |-> 1],
     [i \in 1..FFTBufLen |-> i % 7]}

FFTInit ==
    /\ \E a \in FFTInputs :
          mem = [a |-> a,
                 b  |-> [i \in 1..FFTBufLen |-> (3 * i) % 5],
                 c  |-> [i \in 1..FFTBufLen |-> 20],
                 t1 |-> [i \in 1..FFTBufLen |-> 21],
                 t2 |-> [i \in 1..FFTBufLen |-> 22]]
    /\ rfft = RfftUninit
    /\ fir = <<>> /\ win = <<>> /\ fed = <<>> /\ got = <<>>
    /\ fwdLog = <<>>
    /\ ret = Void /\ last = NoCall /\ halted = FALSE
    /\ cnt = [calls |-> 0, init |-> 0]

\* A block is initialised once, with the two scratch buffers.
FFT_blockInit ==
    /\ cnt.init = 0
    /\ \E L \in FFTLengths :
         \E o \in CMSIS_DSP_real_FFT_f32_blockInit(rfft, P("t1", 0), P("t2", 0), L) :
            /\ rfft' = o.r
            /\ ret' = o.ret
            /\ last' = [NoCall EXCEPT !.op = "FFT_blockInit", !.n1 = L,
                                      !.before = mem]
    /\ cnt' = [cnt EXCEPT !.init = 1]
    /\ fwdLog' = <<>>
    /\ UNCHANGED <<mem, fir, win, halted, fed, got>>

\* the (input, output) buffer pairs of the caller: out of a into c, or a in
\* place; b is a buffer of the caller that no call is given
TransformArgs == {<<"a", "c">>, <<"a", "a">>}
MagnitudeArgs == {<<"a", "c">>}

FftCall(name, outcomes, pIn, pOut) ==
    /\ \E o \in outcomes :
         /\ mem' = o.mem
         /\ last' = [NoCall EXCEPT !.op = name, !.pIn = pIn, !.pOut = pOut,
                                   !.before = mem, !.kp = o.kp, !.kx = o.kx]
         /\ fwdLog' = IF name = "FFT_apply"
                      THEN Append(fwdLog,
                                  [in  |-> Rd(mem, pIn, rfft.length),
                                   out |-> Rd(o.mem, pOut, rfft.length),
                                   at  |-> cnt.calls + 1])
                      ELSE fwdLog
    /\ ret' = Void
    /\ cnt' = [cnt EXCEPT !.calls = @ + 1]
    /\ UNCHANGED <<fir, rfft, win, halted, fed, got>>

FFT_apply ==
    /\ FftUsable(mem, rfft) /\ cnt.calls < MaxFFTCalls
    /\ \E io \in TransformArgs :
         FftCall("FFT_apply",
                 CMSIS_DSP_real_FFT_f32_apply(mem, rfft, P(io[1], 0), P(io[2], 0)),
                 P(io[1], 0), P(io[2], 0))

IFFT_apply ==
    /\ FftUsable(mem, rfft) /\ cnt.calls < MaxFFTCalls
    /\ \E io \in TransformArgs :
         FftCall("IFFT_apply",
                 CMSIS_DSP_real_IFFT_f32_apply(mem, rfft, P(io[1], 0), P(io[2], 0)),
                 P(io[1], 0), P(io[2], 0))

Magnitude_apply ==
    /\ FftUsable(mem, rfft) /\ cnt.calls < MaxFFTCalls
    /\ \E io \in MagnitudeArgs :
         FftCall("magnitude_apply",
                 CMSIS_DSP_magnitude_FFT_f32_apply(mem, rfft, P(io[1], 0), P(io[2], 0)),
                 P(io[1], 0), P(io[2], 0))

MagnitudeSquare_apply ==
    /\ FftUsable(mem, rfft) /\ cnt.calls < MaxFFTCalls
    /\ \E io \in MagnitudeArgs :
         FftCall("magnitudeSquare_apply",
                 CMSIS_DSP_magnitudeSquare_FFT_f32_apply(mem, rfft, P(io[1], 0), P(io[2], 0)),
                 P(io[1], 0), P(io[2], 0))

FFTNext ==
    \/ FFT_blockInit
    \/ FFT_apply
    \/ IFFT_apply
    \/ Magnitude_apply
    \/ MagnitudeSquare_apply

SpecFFT == FFTInit /\ [][FFTNext]_vars

-----------------------------------------------------------------------------
(* Claims about the FIR filter *)

UnitAt(T, k) == [i \in 1..T |-> IF i = k THEN 1 ELSE 0]

\* C1 (FIR streaming continuity): two blocks over the same T coefficients, one
\* with block size B that has filtered the two consecutive B-sample chunks of
\* a sequence in two apply calls, the other with block size 2B that has
\* filtered the whole sequence in one apply call, have produced the same 2B
\* output samples.
C1_StreamingContinuity ==
    \A p \in FirIds, q \in FirIds :
        LET a == fir[p]
            b == fir[q]
        IN  ( /\ FirUsable(mem, a) /\ FirUsable(mem, b)
              /\ a.numTap = b.numTap
              /\ b.blockSize = 2 * a.blockSize
              /\ cnt.apply[p] = 2 /\ cnt.apply[q] = 1
              /\ fed[p] = fed[q] )
            => got[p] = got[q]

\* C1 witness: three taps with a non-zero oldest tap, chunks of two samples
\* against one block of four, all three apply calls done.
C1_Witness ==
    /\ FirUsable(mem, fir["f1"]) /\ FirUsable(mem, fir["f2"])
    /\ fir["f1"].numTap = 3 /\ fir["f2"].numTap = 3
    /\ fir["f1"].blockSize = 2 /\ fir["f2"].blockSize = 4
    /\ cnt.apply["f1"] = 2 /\ cnt.apply["f2"] = 1
    /\ fed["f1"] = fed["f2"]
    /\ mem["coef"][1] # 0
    /\ \E i \in 1..4 : got["f1"][i] # 0

\* the apply call that has just returned, if the last call was one
AppliedFir == last.op = "FIR_apply"
AppliedIn == Rd(last.before, last.pIn, fir[last.blk].blockSize)
AppliedOut == Rd(mem, last.pOut, fir[last.blk].blockSize)
AppliedCoeff == Rd(mem, fir[last.blk].pCoeff, fir[last.blk].numTap)

\* C2 as stated (FIR impulse response): with the coefficient buffer
\* [1,0,...,0] (1 at buffer index 0) every apply call returns its input block
\* unchanged.
C2_Original ==
    (AppliedFir /\ AppliedCoeff = UnitAt(fir[last.blk].numTap, 1))
        => AppliedOut = AppliedIn

\* C2 amended (FIR impulse response): with the coefficient buffer [0,...,0,1]
\* (1 at the last buffer index, the time-reversed identity) every apply call
\* returns its input block unchanged.
C2_TimeReversedIdentity ==
    (AppliedFir
        /\ AppliedCoeff = UnitAt(fir[last.blk].numTap, fir[last.blk].numTap))
        => AppliedOut = AppliedIn

\* C2 witness: a second apply call on a filter of at least two taps whose
\* coefficient buffer is [0,...,0,1].
C2_Witness ==
    /\ AppliedFir
    /\ fir[last.blk].numTap >= 2
    /\ AppliedCoeff = UnitAt(fir[last.blk].numTap, fir[last.blk].numTap)
    /\ cnt.apply[last.blk] = 2

\* C3 as stated: FIR blockInit returns the ArgumentError status when tapCount
\* is zero, blockSize is zero or a buffer pointer is null.
C3_Original ==
    ( /\ last.op = "FIR_blockInit"
      /\ (last.n1 = 0 \/ last.n2 = 0 \/ \E i \in 1..3 : last.ptrs[i] = NULL) )
        => ret = Status(ARM_MATH_ARGUMENT_ERROR)

\* C3 amended: FIR blockInit returns no status and validates nothing: for
\* every argument combination it stores the arguments in the block as given.
C3_NoValidation ==
    last.op = "FIR_blockInit"
        => /\ ret = Void
           /\ fir[last.blk].numTap = last.n1
           /\ fir[last.blk].blockSize = last.n2
           /\ fir[last.blk].pCoeff = last.ptrs[1]
           /\ fir[last.blk].pState = last.ptrs[2]
           /\ fir[last.blk].tmpBuffer = last.ptrs[3]

\* C3 witness: blockInit has returned from a call with tapCount zero and a
\* null coefficient pointer.
C3_Witness ==
    /\ last.op = "FIR_blockInit"
    /\ last.n1 = 0 /\ last.n2 > 0
    /\ last.ptrs[1] = NULL
    /\ ~halted

\* C10 (in-place FIR filtering): an apply call leaves the same output samples
\* and the same state buffer as the call with the other choice of output
\* buffer (over the input instead of disjoint from it, and conversely) made
\* from the same memory.
C10_InPlace ==
    AppliedFir =>
        LET f   == fir[last.blk]
            alt == IF last.pOut = last.pIn
                   THEN P("y", last.pIn.off) ELSE last.pIn
            m2  == CMSIS_DSP_FIR_f32_apply(last.before, f, last.pIn, alt)
            n   == f.numTap + f.blockSize - 1
        IN  /\ AppliedOut = Rd(m2, alt, f.blockSize)
            /\ Rd(mem, f.pState, n) = Rd(m2, f.pState, n)

\* C10 witness: an in-place apply call on a filter with history has changed
\* its buffer.
C10_Witness ==
    /\ AppliedFir
    /\ last.pOut = last.pIn
    /\ fir[last.blk].numTap >= 2
    /\ cnt.apply[last.blk] = 2
    /\ AppliedOut # AppliedIn

-----------------------------------------------------------------------------
(* Claims about the window function *)

\* C5 as stated: window blockInit returns the InvalidLength status when the
\* length is zero, whatever the window kind.
C5_Original ==
    (last.op = "Win_blockInit" /\ last.n1 = 0)
        => ret = Status(ARM_MATH_LENGTH_ERROR)

\* C5 amended: window blockInit with length zero returns no status, whatever
\* the window kind: it writes no coefficient and leaves the block bound with
\* length zero and the kind it was given.
C5_ZeroLengthSilent ==
    (last.op = "Win_blockInit" /\ last.n1 = 0)
        => /\ ret = Void
           /\ mem = last.before
           /\ win = [value |-> P("w", 0), length |-> 0, type |-> last.kind]

\* C5 witness: a Hamming block of length zero made over a block that had
\* been initialised before.
C5_Witness ==
    /\ last.op = "Win_blockInit" /\ last.n1 = 0
    /\ last.kind = WINDOW_TYPE_HAMMING
    /\ cnt.calls >= 2

\* C6 (window identity): with a block whose last blockInit was Rectangular
\* of length L, apply leaves output[n] = input[n] for n in [0, L), also when
\* the output buffer is the input buffer.
C6_RectangularIdentity ==
    (last.op = "Win_apply" /\ win.type = WINDOW_TYPE_RECTANGULAR)
        => Rd(mem, last.pOut, win.length) = Rd(last.before, last.pIn, win.length)

\* C6 witness: a Rectangular window of six samples applied in place, after
\* the coefficient buffer had held another window.
C6_Witness ==
    /\ last.op = "Win_apply" /\ win.type = WINDOW_TYPE_RECTANGULAR
    /\ win.length = 6
    /\ last.pOut = last.pIn
    /\ cnt.calls = 3
    /\ Rd(mem, last.pOut, 6)[2] # 0

-----------------------------------------------------------------------------
(* Claims about the FFT block *)

\* buffer buf is as it was before the last call from its sample n on
SameBeyond(buf, n) ==
    \A i \in (n + 1)..Len(mem[buf]) : mem[buf][i] = last.before[buf][i]

MagnitudeCalled == last.op \in {"magnitude_apply", "magnitudeSquare_apply"}

\* C7 as stated: a magnitude or magnitudeSquared call writes only its N/2
\* output samples; every other buffer, the two scratch buffers of the block
\* and the input included, is unchanged.
C7_Original ==
    MagnitudeCalled =>
        /\ \A buf \in DOMAIN mem \ {last.pOut.buf} : mem[buf] = last.before[buf]
        /\ SameBeyond(last.pOut.buf, rfft.length \div 2)

\* C7 amended: a magnitude or magnitudeSquared call writes its N/2 output
\* samples and overwrites the first N samples of both scratch buffers of the
\* block: tmpBuffer_1 with the copied input (as the kernel leaves it),
\* tmpBuffer_2 with the spectrum the output is derived from.  The caller's
\* input and every other buffer are unchanged.
C7_ScratchOverwritten ==
    MagnitudeCalled =>
        LET N    == rfft.length
            x    == Rd(last.before, last.pIn, N)
            spec == [k \in 1..N |-> KernelMix(x, N, k, REAL_FFT_SELECT_VAL)]
            pw2  == [k \in 1..(N \div 2) |->
                        spec[2*k - 1] * spec[2*k - 1] + spec[2*k] * spec[2*k]]
        IN  /\ mem["a"] = last.before["a"] /\ mem["b"] = last.before["b"]
            /\ SameBeyond("c", N \div 2)
            /\ SameBeyond("t1", N) /\ SameBeyond("t2", N)
            /\ Rd(mem, rfft.tmpBuffer_1, N) \in {x, KernelWork(x, N)}
            /\ Rd(mem, rfft.tmpBuffer_2, N) = spec
            /\ Rd(mem, last.pOut, N \div 2) =
                  IF last.op = "magnitudeSquare_apply" THEN pw2
                  ELSE [k \in 1..(N \div 2) |-> Isqrt(pw2[k])]

\* C7 witness: a magnitude call has changed both scratch buffers.
C7_Witness ==
    /\ last.op = "magnitude_apply"
    /\ mem["t1"] # last.before["t1"]
    /\ mem["t2"] # last.before["t2"]
    /\ mem["a"] = last.before["a"]

\* C8 (forwardTransform is history-independent): any two forward transforms
\* made on the block since its blockInit with equal inputs have given equal
\* outputs, whatever calls ran on the block in between.
C8_HistoryIndependent ==
    \A i \in 1..Len(fwdLog), j \in 1..Len(fwdLog) :
        fwdLog[i].in = fwdLog[j].in => fwdLog[i].out = fwdLog[j].out

\* C8 witness: two forward transforms of the same input, with a call of
\* another kind between them.
C8_Witness ==
    /\ Len(fwdLog) = 2
    /\ fwdLog[1].in = fwdLog[2].in
    /\ fwdLog[2].at = fwdLog[1].at + 2

TransformCalled == last.op \in {"FFT_apply", "IFFT_apply"}

\* C9 (copy discipline): after a forward or inverse transform whose input
\* buffer is disjoint from its output buffer (and from the scratch buffers),
\* the input buffer is unchanged, the kernel was handed tmpBuffer_1, the N
\* samples behind it were the N input samples, and tmpBuffer_1 is unchanged
\* beyond its first N samples.
C9_CopyDiscipline ==
    (TransformCalled /\ last.pIn.buf # last.pOut.buf) =>
        /\ mem[last.pIn.buf] = last.before[last.pIn.buf]
        /\ last.kp = rfft.tmpBuffer_1
        /\ last.kx = Rd(last.before, last.pIn, rfft.length)
        /\ SameBeyond(rfft.tmpBuffer_1.buf, rfft.length)

\* C9 witness: an inverse transform out of a into c, made after another
\* call, that has changed tmpBuffer_1.
C9_Witness ==
    /\ last.op = "IFFT_apply"
    /\ last.pIn.buf # last.pOut.buf
    /\ cnt.calls >= 2
    /\ mem["t1"] # last.before["t1"]
    /\ mem["c"] # last.before["c"]

=============================================================================
